---- MODULE Spec2Model ----
(***************************************************************************)
(* Model of the snake game of src/main.rs: the Game simulation (snake      *)
(* body, heading, pending direction, food, score) driven by the event loop *)
(* of main, which delivers render, update and button events one at a time. *)
(***************************************************************************)
EXTENDS Integers, Sequences, FiniteSets, TLC

VARIABLES
    size,               \* Game.size: (width, height)
    body,               \* Snake.body, head first
    direction,          \* Snake.direction
    food,               \* Food.position
    pending_direction,  \* Game.pending_direction (None or a Direction)
    score,              \* Game.score
    pc,                 \* main: "loop" in the event loop, "done" after it, "panic" on expect
    outcome,            \* value returned by the last Game::update (TRUE before any tick)
    printed,            \* score written by the final println (None before it)
    frames,             \* number of frames drawn by Game::render, modulo MaxFrames
    keys,               \* history: buttons handed to Game::pressed since the last tick
    ticks               \* history: number of ticks counted by the bounded input run

vars == <<size, body, direction, food, pending_direction, score, pc, outcome,
          printed, frames, keys, ticks>>

game == <<size, body, direction, food, pending_direction, score>>

\* Bounds of the exploration.
GridW == 7
GridH == 6
MaxLen == 4
MaxFrames == 1
MaxKeys == 2
MaxTicks == 2

None == "None"
Directions == {"Right", "Left", "Up", "Down"}
Buttons == Directions \cup {"Other"}

\* Snake::new
new_body == << <<5, 5>>, <<4, 5>> >>
new_direction == "Right"

\* Snake::head
head(b) == b[1]

\* shift with the rows of Up and Down exchanged
shift_swapped(p, d) ==
    CASE d = "Left" -> <<p[1] - 1, p[2]>>
      [] d = "Right" -> <<p[1] + 1, p[2]>>
      [] d = "Up" -> <<p[1], p[2] + 1>>
      [] d = "Down" -> <<p[1], p[2] - 1>>

\* the match of Snake::update: the head shifted by one cell
shift(p, d) ==
    CASE d = "Left" -> <<p[1] - 1, p[2]>>
      [] d = "Right" -> <<p[1] + 1, p[2]>>
      [] d = "Up" -> <<p[1], p[2] - 1>>
      [] d = "Down" -> <<p[1], p[2] + 1>>

\* Snake::is_eating
is_eating(b, f) == head(b) = f

\* LinkedList::pop_back
pop_back(b) == SubSeq(b, 1, Len(b) - 1)

\* next_direction that ignores the pending direction
next_direction_ignored(d, nd) == d

\* the heading Snake::update moves in
next_direction(d, nd) == IF nd # None THEN nd ELSE d

\* snake_update without the pop_back
snake_update_never_pop(b, d, f, nd) ==
    <<shift(head(b), next_direction(d, nd))>> \o b

\* snake_update with the pop_back taken on every tick
snake_update_always_pop(b, d, f, nd) ==
    pop_back(<<shift(head(b), next_direction(d, nd))>> \o b)

\* snake_update without the push_front
snake_update_no_push(b, d, f, nd) ==
    IF ~is_eating(b, f) THEN pop_back(b) ELSE b

\* Snake::update: the new body
snake_update(b, d, f, nd) ==
    LET pushed == <<shift(head(b), next_direction(d, nd))>> \o b
    IN IF ~is_eating(pushed, f) THEN pop_back(pushed) ELSE pushed

\* is_eating_itself that stops before the last segment
is_eating_itself_skip_tail(b) == \E i \in 2..(Len(b) - 1) : b[i] = head(b)

\* is_eating_itself that looks at the first four segments only
is_eating_itself_four(b) == \E i \in 2..4 : i <= Len(b) /\ b[i] = head(b)

\* Snake::is_eating_itself
is_eating_itself(b) == \E i \in 2..Len(b) : b[i] = head(b)

\* is_out_of_bounds with the upper limits taken as inside
is_out_of_bounds_inclusive(b, bounds) ==
    LET x == head(b)[1]
        y == head(b)[2]
    IN x < 0 \/ x > bounds[1] \/ y < 0 \/ y > bounds[2]

\* is_out_of_bounds that tests the column only
is_out_of_bounds_column(b, bounds) ==
    LET x == head(b)[1]
    IN x < 0 \/ x >= bounds[1]

\* Snake::is_out_of_bounds
is_out_of_bounds(b, bounds) ==
    LET x == head(b)[1]
        y == head(b)[2]
    IN x < 0 \/ x >= bounds[1] \/ y < 0 \/ y >= bounds[2]

\* is_loosing that tests the bounds only
is_loosing_bounds_only(b, bounds) == is_out_of_bounds(b, bounds)

\* Game::is_loosing
is_loosing(b, bounds) == is_eating_itself(b) \/ is_out_of_bounds(b, bounds)

\* Game::generate_food: the position of a drawn index
food_position(index, bounds) == <<index % bounds[1], index \div bounds[1]>>

\* food_indices with the last index never drawn
food_indices_short(bounds) == 0..(bounds[1] * bounds[2] - 2)

\* Game::generate_food: the indices gen_range can return
food_indices(bounds) == 0..(bounds[1] * bounds[2] - 1)

\* pressed_direction without the guards on the current heading
pressed_direction_no_guard(button, previous_direction) ==
    IF button \in Directions THEN button ELSE previous_direction

\* pressed_direction with each guard naming the key's own direction
pressed_direction_own_guard(button, previous_direction) ==
    CASE button = "Up" /\ previous_direction # "Up" -> "Up"
      [] button = "Down" /\ previous_direction # "Down" -> "Down"
      [] button = "Left" /\ previous_direction # "Left" -> "Left"
      [] button = "Right" /\ previous_direction # "Right" -> "Right"
      [] OTHER -> previous_direction

\* Game::pressed: the match on the button and the current heading
pressed_direction(button, previous_direction) ==
    CASE button = "Up" /\ previous_direction # "Down" -> "Up"
      [] button = "Down" /\ previous_direction # "Up" -> "Down"
      [] button = "Left" /\ previous_direction # "Right" -> "Left"
      [] button = "Right" /\ previous_direction # "Left" -> "Right"
      [] OTHER -> previous_direction

\* pressed_pending without the early return on a recorded pending direction
pressed_pending_last_wins(button, pd, d) ==
    IF pressed_direction(button, d) # d THEN pressed_direction(button, d) ELSE pd

\* pressed_pending that records the direction even when it is the heading
pressed_pending_always_records(button, pd, d) ==
    IF pd # None THEN pd ELSE pressed_direction(button, d)

\* Game::pressed: the pending direction after the call
pressed_pending(button, pd, d) ==
    IF pd # None THEN pd
    ELSE IF pressed_direction(button, d) # d THEN pressed_direction(button, d)
    ELSE None

\* Game::new as called with a grid size
new_game(bounds) ==
    /\ size = bounds
    /\ body = new_body
    /\ direction = new_direction
    /\ \E index \in food_indices(bounds) : food = food_position(index, bounds)
    /\ pending_direction = None
    /\ score = 0

\* main up to the first event
Init ==
    /\ new_game(<<GridW, GridH>>)
    /\ pc = "loop"
    /\ outcome = TRUE
    /\ printed = None
    /\ frames = 0
    /\ keys = <<>>
    /\ ticks = 0

\* Game::generate_food: the food moves to the position of a drawn index
generate_food ==
    \E index \in food_indices(size) : food' = food_position(index, size)

\* the update arm of main without the break
main_no_break(result, s) == UNCHANGED <<pc, printed>>

\* the update arm of main: break out of the loop and print the score when
\* Game::update returned false
main_after_update(result, s) ==
    IF result
    THEN UNCHANGED <<pc, printed>>
    ELSE pc' = "done" /\ printed' = s

\* Game::update called from the update event of main; Snake::head aborts on an
\* empty body
update ==
    /\ pc = "loop"
    /\ IF body = <<>>
       THEN /\ pc' = "panic"
            /\ UNCHANGED <<game, outcome, printed>>
       ELSE /\ body' = snake_update(body, direction, food, pending_direction)
            /\ direction' = next_direction(direction, pending_direction)
            /\ UNCHANGED size
            /\ IF body' = <<>>
               THEN /\ pc' = "panic"
                    /\ UNCHANGED <<food, pending_direction, score, outcome, printed>>
               ELSE /\ IF is_eating(body', food)
                       THEN /\ generate_food
                            /\ score' = score + 1
                       ELSE UNCHANGED <<food, score>>
                    /\ pending_direction' = None
                    /\ outcome' = ~is_loosing(body', size)
                    /\ main_after_update(outcome', score')

\* pressed that writes the heading at once instead of the pending direction
pressed_sets_heading(button) ==
    /\ pc = "loop"
    /\ direction' = pressed_direction(button, direction)
    /\ UNCHANGED <<size, body, pending_direction, food, score, pc, outcome, printed>>

\* Game::pressed called from the button event of main
pressed(button) ==
    /\ pc = "loop"
    /\ pending_direction' = pressed_pending(button, pending_direction, direction)
    /\ UNCHANGED <<size, body, direction, food, score, pc, outcome, printed>>

\* render that also consumes the pending direction
render_clears_pending ==
    /\ pc = "loop"
    /\ frames' = (frames + 1) % (MaxFrames + 1)
    /\ pending_direction' = None
    /\ UNCHANGED <<size, body, direction, food, score, pc, outcome, printed>>

\* Game::render called from the render event of main
render ==
    /\ pc = "loop"
    /\ frames' = (frames + 1) % (MaxFrames + 1)
    /\ UNCHANGED <<game, pc, outcome, printed>>

\* the event loop ends because the window was closed; the score is printed
close ==
    /\ pc = "loop"
    /\ pc' = "done"
    /\ printed' = score
    /\ UNCHANGED <<game, outcome>>

(***************************************************************************)
(* Spec: every behaviour of main on a GridW x GridH grid, the snake        *)
(* explored up to MaxLen segments. The history variables stay untouched.   *)
(***************************************************************************)
Update == Len(body) <= MaxLen /\ update /\ UNCHANGED <<frames, keys, ticks>>

Pressed == \E button \in Buttons : pressed(button) /\ UNCHANGED <<frames, keys, ticks>>

Render == pc = "loop" /\ UNCHANGED vars

Close == close /\ UNCHANGED <<frames, keys, ticks>>

Next == Update \/ Pressed \/ Render \/ Close

Spec == Init /\ [][Next]_vars

(***************************************************************************)
(* SpecEvents: the same program run for MaxTicks ticks with the history of *)
(* the events recorded: the buttons pressed since the last tick (at most   *)
(* MaxKeys of them), the ticks and the frames.                             *)
(***************************************************************************)
UpdateE ==
    /\ ticks < MaxTicks
    /\ update
    /\ keys' = <<>>
    /\ ticks' = ticks + 1
    /\ UNCHANGED frames

PressedE ==
    \E button \in Buttons :
        /\ Len(keys) < MaxKeys
        /\ pressed(button)
        /\ keys' = Append(keys, button)
        /\ UNCHANGED <<frames, ticks>>

RenderE == render /\ UNCHANGED <<keys, ticks>>

CloseE == close /\ UNCHANGED <<frames, keys, ticks>>

NextE == UpdateE \/ PressedE \/ RenderE \/ CloseE

SpecEvents == Init /\ [][NextE]_vars

(***************************************************************************)
(* SpecMain: main on its own grid, WIDTH x HEIGHT, with the ticks counted  *)
(* and only button events that Game::pressed does not accept.              *)
(***************************************************************************)
WIDTH == 30
HEIGHT == 20

InitMain ==
    /\ new_game(<<WIDTH, HEIGHT>>)
    /\ pc = "loop"
    /\ outcome = TRUE
    /\ printed = None
    /\ frames = 0
    /\ keys = <<>>
    /\ ticks = 0

UpdateM == update /\ ticks' = ticks + 1 /\ UNCHANGED <<frames, keys>>

PressedM ==
    \E button \in Buttons :
        /\ pressed_pending(button, pending_direction, direction) = None
        /\ pressed(button)
        /\ UNCHANGED <<frames, keys, ticks>>

NextM == UpdateM \/ PressedM \/ Render \/ Close

SpecMain == InitMain /\ [][NextM]_vars

(***************************************************************************)
(* Properties.                                                             *)
(***************************************************************************)
Reverse(d) ==
    CASE d = "Up" -> "Down"
      [] d = "Down" -> "Up"
      [] d = "Left" -> "Right"
      [] d = "Right" -> "Left"

\* one cell in a heading: Up is row - 1, Down row + 1, Left col - 1, Right col + 1
Cell(p, d) ==
    <<p[1] + (IF d = "Right" THEN 1 ELSE IF d = "Left" THEN -1 ELSE 0),
      p[2] + (IF d = "Down" THEN 1 ELSE IF d = "Up" THEN -1 ELSE 0)>>

InGrid(p) == p[1] >= 0 /\ p[1] < size[1] /\ p[2] >= 0 /\ p[2] < size[2]

HeadOnBody(b) == \E i \in 1..Len(b) : i >= 2 /\ b[i] = b[1]

Running == outcome
Terminated == ~outcome

\* a step that is a tick: only Game::update changes the body
Ticked == body' # body

\* a step that is a call of Game::pressed (recorded in SpecEvents)
Requested == Len(keys') = Len(keys) + 1

\* the body of the self-collision scenario, head first
ScenarioBody == << <<5, 5>>, <<4, 5>>, <<4, 4>>, <<5, 4>> >>

\* C3: the last tick returned false if and only if the head, after the move and
\* the conditional tail removal, is on another segment or outside the grid; a
\* head one column past the last column means Terminated.
LossConditions ==
    /\ Terminated <=> (HeadOnBody(body) \/ ~InGrid(body[1]))
    /\ body[1][1] = size[1] => Terminated

LossWitness ==
    /\ Terminated
    /\ body[1] = <<GridW, 5>>
    /\ body[2] = <<GridW - 1, 5>>
    /\ direction = "Right"

\* C6: while Running no two body segments occupy the same position.
NoOverlapWhileRunning ==
    Running => \A i, j \in 1..Len(body) : i # j => body[i] # body[j]

\* a tick moved the head onto the cell the tail had just left
NoOverlapWitness ==
    /\ Running
    /\ body = << <<5, 4>>, <<5, 5>>, <<4, 5>>, <<4, 4>> >>
    /\ direction = "Up"

\* C7: the body always has at least one segment and the abort of Snake::head
\* is never reached.
BodyNeverEmpty == Len(body) >= 1 /\ pc # "panic"

BodyNeverEmptyWitness ==
    /\ Len(body) = 2
    /\ body # new_body
    /\ score = 0
    /\ pc = "loop"

\* C4: Running becomes Terminated only in a tick that ends on a loss condition;
\* from a Terminated state nothing changes any more (no tick, no request, no
\* frame), the loop has been left and the score printed is the score of that
\* moment.
TerminatedAbsorbing ==
    [][/\ (Running /\ Terminated') =>
              (Ticked /\ (HeadOnBody(body') \/ ~InGrid(body'[1])))
       /\ Terminated' => (pc' = "done" /\ printed' = score')
       /\ Terminated => UNCHANGED vars]_vars

TerminatedWitness ==
    /\ Terminated
    /\ pc = "done"
    /\ score = 1
    /\ printed = 1

\* C5: the score is the body length minus 2, it starts at 0 with 2 segments,
\* and every step adds to both exactly 1 when it is a tick whose new head
\* landed on the food, and 0 otherwise.
GrowthLaw ==
    [][LET landed == Ticked /\ body'[1] = food
           gain == IF landed THEN 1 ELSE 0
       IN /\ score = Len(body) - 2
          /\ score >= 0
          /\ score' = score + gain
          /\ Len(body') = Len(body) + gain
          /\ score' = Len(body') - 2]_vars

GrowthWitness ==
    /\ score = 2
    /\ Len(body) = 4
    /\ Running

\* C8: a tick whose new head is on the food keeps every previous segment behind
\* the new head, adds exactly 1 to the score and draws a new food position of
\* the grid, whether or not the tick then ends the game.
FoodStep ==
    [][(Ticked /\ body'[1] = food) =>
          /\ body' = <<food>> \o body
          /\ body'[1] = Cell(body[1], direction')
          /\ score' = score + 1
          /\ \E index \in 0..(size[1] * size[2] - 1) :
                 food' = <<index % size[1], index \div size[1]>>]_vars

\* the food lay on the tail cell: the tick ate it and ended the game
FoodStepWitness ==
    /\ Terminated
    /\ score = 3
    /\ body = <<ScenarioBody[4]>> \o ScenarioBody

\* C9: a tick whose new head is not on the food puts the new head one cell
\* from the old head in the active heading, drops the last segment and leaves
\* body length, score and food unchanged.
MovementStep ==
    [][(Ticked /\ body'[1] # food) =>
          /\ body'[1] = Cell(body[1], direction')
          /\ body' = <<body'[1]>> \o SubSeq(body, 1, Len(body) - 1)
          /\ Len(body') = Len(body)
          /\ score' = score
          /\ food' = food]_vars

MovementWitness ==
    /\ body = << <<6, 5>>, <<5, 5>> >>
    /\ direction = "Right"
    /\ food # <<6, 5>>
    /\ score = 0
    /\ Running

\* C10 as stated: from the scenario body with the request Up recorded, the tick
\* ends the game.
ScenarioAlwaysTerminates ==
    [][(body = ScenarioBody /\ pending_direction = "Up" /\ Ticked) =>
          Terminated']_vars

\* C10 amended: from the scenario body with the request Up recorded, the tick
\* moves the head to (5,4), the cell of the tail; it ends the game exactly when
\* the food lies on (5,4), the tail then being kept; otherwise the tail is
\* removed first and the tick returns true.
ScenarioTailCell ==
    [][(body = ScenarioBody /\ pending_direction = "Up" /\ Ticked) =>
          /\ body'[1] = <<5, 4>>
          /\ Terminated' <=> food = <<5, 4>>
          /\ food = <<5, 4>> => body' = << <<5, 4>> >> \o ScenarioBody
          /\ food # <<5, 4>> =>
                 body' = << <<5, 4>>, <<5, 5>>, <<4, 5>>, <<4, 4>> >>]_vars

ScenarioWitness ==
    /\ body = ScenarioBody
    /\ direction = "Right"
    /\ pending_direction = "Up"
    /\ food # <<5, 4>>
    /\ pc = "loop"

\* C1: between two ticks, once a request has been accepted as pending every
\* further request leaves the pending direction as it is; a request accepted
\* with no pending direction records its own key; and the next tick moves the
\* head in the pending direction, which becomes the heading.
DebounceLaw ==
    [][/\ (Requested /\ pending_direction # None) =>
              pending_direction' = pending_direction
       /\ (Requested /\ pending_direction = None /\ pending_direction' # None) =>
              pending_direction' = keys'[Len(keys')]
       /\ (Ticked /\ pending_direction # None) =>
              /\ direction' = pending_direction
              /\ body'[1] = Cell(body[1], pending_direction)]_vars

\* heading Right, requests Up then Down: Up is still the pending direction
DebounceWitness ==
    /\ direction = "Right"
    /\ keys = <<"Up", "Down">>
    /\ pending_direction = "Up"
    /\ pc = "loop"

\* C2: a request for the exact reverse of the current heading never changes the
\* pending direction, whether one is recorded or not, and the pending
\* direction is never the reverse of the heading.
ReverseRejection ==
    [][/\ (Requested /\ keys'[Len(keys')] = Reverse(direction)) =>
              pending_direction' = pending_direction
       /\ pending_direction # Reverse(direction)
       /\ pending_direction' # Reverse(direction')]_vars

\* heading Up with Left pending, then a request Down
ReverseWitness ==
    /\ direction = "Up"
    /\ keys = <<"Left", "Down">>
    /\ pending_direction = "Left"
    /\ ticks = 1

GridCells == {<<x, y>> : x \in 0..(size[1] - 1), y \in 0..(size[2] - 1)}

\* C11: the food is always at (index mod width, index div width) for an index
\* of [0, width*height), hence inside the grid; and in a state whose tick
\* eats, Game::generate_food can move the food to any cell of the grid, the
\* cells of the snake body included.
FoodPlacement ==
    /\ LET index == food[2] * size[1] + food[1]
       IN /\ index \in 0..(size[1] * size[2] - 1)
          /\ food = <<index % size[1], index \div size[1]>>
    /\ InGrid(food)
    /\ (pc = "loop" /\ Cell(body[1], next_direction(direction, pending_direction)) = food) =>
           \A c \in GridCells : ENABLED (generate_food /\ food' = c)

\* the new food was drawn on the cell of the head that has just eaten
FoodPlacementWitness ==
    /\ score = 1
    /\ Len(body) = 3
    /\ food = body[1]
    /\ Running

\* a button that Game::pressed accepts with no pending direction: a direction
\* that is neither the heading nor its reverse
Perpendicular(button, d) ==
    button \in Directions /\ button # d /\ button # Reverse(d)

\* C12: a request changes neither the heading, the body, the food nor the
\* score; the tick makes the pending direction the heading, moves the head in
\* it and clears it, a tick with nothing pending keeps the heading; and with
\* nothing pending (as after every tick) a perpendicular request is accepted.
PendingAppliedOnce ==
    [][/\ Requested => UNCHANGED <<direction, body, food, score>>
       /\ Ticked =>
              /\ direction' = IF pending_direction # None
                              THEN pending_direction ELSE direction
              /\ body'[1] = Cell(body[1], direction')
              /\ pending_direction' = None
       /\ (Requested /\ pending_direction = None
             /\ Perpendicular(keys'[Len(keys')], direction)) =>
              pending_direction' = keys'[Len(keys')]]_vars

\* the first tick applied Up and cleared it; Left was accepted right after it
PendingWitness ==
    /\ ticks = 1
    /\ direction = "Up"
    /\ body[1] = <<5, 4>>
    /\ keys = <<"Left">>
    /\ pending_direction = "Left"

\* the cells next to the grid: one cell outside it in exactly one coordinate
OneCellOutside(p) ==
    \/ p[1] \in {-1, size[1]} /\ p[2] >= 0 /\ p[2] < size[2]
    \/ p[2] \in {-1, size[2]} /\ p[1] >= 0 /\ p[1] < size[1]

\* C13: while Running every body segment is inside the grid; once Terminated
\* every segment but the head is inside the grid and the head is inside it or
\* exactly one cell outside.
SegmentsInGrid ==
    /\ Running => \A i \in 1..Len(body) : InGrid(body[i])
    /\ Terminated =>
           /\ \A i \in 2..Len(body) : InGrid(body[i])
           /\ InGrid(body[1]) \/ OneCellOutside(body[1])

\* the head left the grid through the bottom row
SegmentsWitness ==
    /\ Terminated
    /\ body[1] = <<5, GridH>>
    /\ body[2] = <<5, GridH - 1>>
    /\ direction = "Down"

\* C14: whatever requests were made since the last tick, the heading after a
\* tick is never the reverse of the heading before it, and the new head is
\* never the cell of the segment that was behind the head.
NeverReverses ==
    [][Ticked =>
          /\ direction' # Reverse(direction)
          /\ body'[1] # body[2]
          /\ body[1] = Cell(body[2], direction)]_vars

\* heading Up after a first tick; Down (the reverse) and then Right were
\* requested before the second tick
NeverReversesWitness ==
    /\ ticks = 1
    /\ direction = "Up"
    /\ keys = <<"Down", "Right">>
    /\ pending_direction = "Right"
    /\ pc = "loop"

\* a step that is a call of Game::render (counted in SpecEvents)
Rendered == frames' # frames

\* C15: a render event draws a frame and leaves the body, the heading, the
\* pending direction, the food, the score, the grid size, the last tick
\* outcome and the position of main unchanged; the other events do not depend
\* on the frames drawn.
RenderReadOnly ==
    [][/\ Rendered =>
              /\ UNCHANGED <<body, direction, pending_direction, food, score>>
              /\ UNCHANGED <<size, outcome, pc, printed, keys, ticks>>
       /\ ~Rendered => frames' = frames]_vars

\* a frame was drawn between an accepted request and the tick that applies it
RenderWitness ==
    /\ frames = 1
    /\ ticks = 1
    /\ keys = <<"Up">>
    /\ pending_direction = "Up"
    /\ direction = "Right"
    /\ pc = "loop"

\* the requests of ks that are perpendicular to the heading d
AcceptedAt(ks, d) == {i \in 1..Len(ks) : Perpendicular(ks[i], d)}

\* the first request of ks perpendicular to the heading d, None without one
FirstAccepted(ks, d) ==
    IF AcceptedAt(ks, d) = {}
    THEN None
    ELSE ks[CHOOSE i \in AcceptedAt(ks, d) : \A j \in AcceptedAt(ks, d) : i <= j]

\* C16: the pending direction is the first perpendicular request made since
\* the last tick: requests for the heading, for its reverse or with another
\* button before it leave the pending direction empty and do not use up the
\* slot; the tick then moves in the pending direction.
RejectedKeepsSlot ==
    [][/\ pending_direction = FirstAccepted(keys, direction)
       /\ pending_direction' = FirstAccepted(keys', direction')
       /\ (Ticked /\ pending_direction # None) =>
              body'[1] = Cell(body[1], pending_direction)]_vars

\* heading Right, requests Left then Up: Up is pending
RejectedKeepsSlotWitness ==
    /\ direction = "Right"
    /\ keys = <<"Left", "Up">>
    /\ pending_direction = "Up"
    /\ pc = "loop"

\* two cells that differ by exactly one in exactly one coordinate
Adjacent(p, q) ==
    \/ p[1] = q[1] /\ (p[2] - q[2]) \in {-1, 1}
    \/ p[2] = q[2] /\ (p[1] - q[1]) \in {-1, 1}

\* C17: the body is a contiguous path (consecutive segments are adjacent
\* cells) of at least two segments, and the head is the second segment moved
\* one cell in the heading, also while a request is pending.
ContiguousBody ==
    /\ Len(body) >= 2
    /\ \A i \in 1..(Len(body) - 1) : Adjacent(body[i], body[i + 1])
    /\ body[1] = Cell(body[2], direction)

\* a bent body with a request pending: the heading is still the one of the
\* last tick
ContiguousWitness ==
    /\ body = << <<6, 3>>, <<6, 4>>, <<6, 5>>, <<5, 5>> >>
    /\ direction = "Up"
    /\ pending_direction = "Left"

\* C18: in a tick that moves the head onto the cell of the current tail, the
\* tick returns true and leaves a body without duplicates when the food is not
\* on that cell (the tail is removed first), and returns false when the food
\* is on it (the tail is kept under the new head).
TailCellRule ==
    [][(Ticked /\ body'[1] = body[Len(body)]) =>
          /\ Running' <=> food # body[Len(body)]
          /\ food # body[Len(body)] =>
                 /\ Len(body') = Len(body)
                 /\ \A i, j \in 1..Len(body') : i # j => body'[i] # body'[j]
          /\ food = body[Len(body)] =>
                 /\ body' = <<food>> \o body
                 /\ body'[1] = body'[Len(body')]]_vars

\* the food lay on the tail cell of a square of four segments, the head moved
\* Down onto it and the tick returned false
TailCellWitness ==
    /\ Terminated
    /\ Len(body) = 5
    /\ body[1] = body[5]
    /\ direction = "Down"
    /\ InGrid(body[1])

\* C19: on the 30 x 20 grid of main, with no request accepted, the head is at
\* (5 + k, 5) after k ticks whatever the food positions are, ticks 1 to 24
\* return true and tick 25 returns false with the head at (30, 5); until then
\* a tick is always possible, and after it main has left the loop.
StraightRun ==
    /\ ticks \in 0..25
    /\ body[1] = <<5 + ticks, 5>>
    /\ direction = "Right"
    /\ pending_direction = None
    /\ Running <=> ticks <= 24
    /\ ticks = 25 => (Terminated /\ body[1] = <<30, 5>> /\ pc = "done")
    /\ pc = "loop" => ENABLED UpdateM
    /\ score = Len(body) - 2

\* tick 25 ended a run in which the snake had eaten on its way
StraightRunWitness ==
    /\ ticks = 25
    /\ Terminated
    /\ body[1] = <<30, 5>>
    /\ score = 3
    /\ printed = 3

\* Spec with the ticks the event loop keeps delivering (settings.ups = 8)
SpecTicking == Init /\ [][Update \/ Pressed]_vars /\ WF_vars(Update)

\* The last clause of C19 (with direction requests the game need not
\* terminate) is the failure of this formula under SpecTicking: the snake of
\* two segments can turn Up, Left, Down, Right for ever around a square of
\* four cells that the food is not on.
EveryGameTerminates == <>Terminated

====
